---- MODULE Spec2Model ----
(***************************************************************************)
(* Model of the teaching schedule generator (src/main.py): the greedy      *)
(* scheduler build_schedule, stepped one loop iteration at a time, and the *)
(* validator validate_schedule, as a function of a grid.                   *)
(*                                                                         *)
(* Groups are identifiers (Python str).  They are modelled as naturals     *)
(* ordered as the strings are; EmptyName (0) is the empty string "", the   *)
(* least string and the only falsy one.  Stations are 1..n in the order of *)
(* the caller's list.  None is the Python None of an unfilled cell.        *)
(* Days and slots are 0-based as in the code; the grid is a sequence, so   *)
(* cell (d, s) is schedule[d + 1][s + 1].                                  *)
(***************************************************************************)
EXTENDS Integers, Sequences, FiniteSets, TLC

\* ---------------------------------------------------------------- bounds
MaxGroupId == 2
MaxStations == 2
MaxDays == 2
MaxSlots == 2
MaxMin == 1
MaxCap == 2
MaxRand == 2

\* fill_priority values: powers of two, for which 1 / fill_priority and its
\* products with an integer are exact in binary floating point
FillPriorities == {1, 2}

None == -1
EmptyName == 0

VARIABLES
    groups,                  \* set of group identifiers
    stations,                \* sequence of stations, in list order
    days,
    slots_per_day,
    station_rules,           \* station -> StationRule
    strict_required,
    schedule,                \* [day][slot] -> (station -> group or None)
    total_assignments,       \* group -> int
    station_counts_week,     \* group -> station -> int
    per_day_station_counts,  \* [day] -> group -> station -> int
    ordered_stations,        \* the station order in use
    d, s, k,                 \* loop positions: day, slot, index in ordered_stations
    used_in_slot,
    pc,
    override_taken,          \* stations for which the second pass was computed
    override_supplied,       \* stations that got a group out of the second pass
    verdict,                 \* outcome of validate_schedule
    visits,                  \* (day, slot, station) -> iterations of the loop body
    day_orders,              \* the station orders drawn by the day loop, one per day
    twin                     \* a second run of build_schedule on the same input

vars == <<groups, stations, days, slots_per_day, station_rules, strict_required,
          schedule, total_assignments, station_counts_week,
          per_day_station_counts, ordered_stations, d, s, k, used_in_slot, pc,
          override_taken, override_supplied, verdict, visits,
          day_orders, twin>>

inputs == <<groups, stations, days, slots_per_day, station_rules, strict_required>>

\* ------------------------------------------------------------ data model
StationRule == [min : 0..MaxMin, max : 1..MaxCap, required : BOOLEAN,
                fill_priority : FillPriorities]

StationSet == {stations[j] : j \in 1..Len(stations)}

\* Python truthiness of a cell value: None and "" are falsy
Truthy(g) == g # None /\ g # EmptyName

\* variant: the two ranges of the comprehension are swapped
EmptyScheduleSwapped(sts, nd, ns) ==
    [dd \in 1..ns |-> [ss \in 1..nd |-> [st \in sts |-> None]]]

\* [{s: None for s in stations} for _ in range(slots_per_day)] for _ in range(days)
EmptySchedule(sts, nd, ns) ==
    [dd \in 1..nd |-> [ss \in 1..ns |-> [st \in sts |-> None]]]

ZeroTotals(gs) == [g \in gs |-> 0]

ZeroStationCounts(gs, sts) == [g \in gs |-> [st \in sts |-> 0]]

ZeroPerDay(gs, sts, nd) == [dd \in 1..nd |-> ZeroStationCounts(gs, sts)]

\* --------------------------------------------------------------- resort
\* key(a) < key(b) for the sort key (not required, rand * (1 / fill_priority))
KeyLess(a, b, rnd) ==
    LET ra == station_rules[a]
        rb == station_rules[b]
    IN \/ ra.required /\ ~rb.required
       \/ /\ ra.required = rb.required
          /\ rnd[a] * rb.fill_priority < rnd[b] * ra.fill_priority

KeyEqual(a, b, rnd) ==
    /\ station_rules[a].required = station_rules[b].required
    /\ rnd[a] * station_rules[b].fill_priority = rnd[b] * station_rules[a].fill_priority

\* variant: the key is the random part alone, required or not
SortsBeforeIgnoringRequired(a, b, rnd) ==
    \/ rnd[a] * station_rules[b].fill_priority < rnd[b] * station_rules[a].fill_priority
    \/ /\ rnd[a] * station_rules[b].fill_priority = rnd[b] * station_rules[a].fill_priority
       /\ a < b

\* a comes before b in sorted(stations, key): sorted is stable
SortsBefore(a, b, rnd) ==
    \/ KeyLess(a, b, rnd)
    \/ KeyEqual(a, b, rnd) /\ a < b

resort(rnd) ==
    LET rank(st) == Cardinality({t \in StationSet : SortsBefore(t, st, rnd)})
    IN [j \in 1..Len(stations) |-> CHOOSE st \in StationSet : rank(st) = j - 1]

Draws == [StationSet -> 1..MaxRand]

\* ----------------------------------------------------- candidate_groups
\* (the candidate lists are sets: choose_group's key orders the groups totally,
\* so the order of a list plays no part)

\* variant: the first pass forgets the groups already used in the slot
FirstPassIgnoringSlot(station, day, used, pdc, scw) ==
    {g \in groups : /\ pdc[day + 1][g][station] = 0
                    /\ scw[g][station] < station_rules[station].max}

\* variant: the first pass forgets the weekly cap
FirstPassIgnoringCap(station, day, used, pdc, scw) ==
    {g \in groups : /\ g \notin used
                    /\ pdc[day + 1][g][station] = 0}

\* variant: the cap test is off by one (count + 1 < max)
FirstPassCapOffByOne(station, day, used, pdc, scw) ==
    {g \in groups : /\ g \notin used
                    /\ pdc[day + 1][g][station] = 0
                    /\ scw[g][station] + 1 < station_rules[station].max}

\* first pass: all rules including max caps
FirstPass(station, day, used, pdc, scw) ==
    {g \in groups : /\ g \notin used
                    /\ pdc[day + 1][g][station] = 0
                    /\ scw[g][station] < station_rules[station].max}

\* variant: the second pass drops the once-a-day rule along with the cap
SecondPassIgnoringDay(station, day, used, pdc) ==
    {g \in groups : g \notin used}

\* second pass: the cap is dropped, the two uniqueness rules are kept
SecondPass(station, day, used, pdc) ==
    {g \in groups : /\ g \notin used
                    /\ pdc[day + 1][g][station] = 0}

\* variant: the override is taken in strict mode too
OverrideReachedAlsoStrict(station, day, used, pdc, scw) ==
    /\ FirstPass(station, day, used, pdc, scw) = {}
    /\ station_rules[station].required

\* the branch "if required and not strict_required" is reached
OverrideReached(station, day, used, pdc, scw) ==
    /\ FirstPass(station, day, used, pdc, scw) = {}
    /\ station_rules[station].required
    /\ ~strict_required

\* variant: for a required station in non-strict mode the cap is dropped at
\* once, without trying the first pass
candidate_groups_override_first(station, day, used, pdc, scw) ==
    IF station_rules[station].required /\ ~strict_required
    THEN SecondPass(station, day, used, pdc)
    ELSE FirstPass(station, day, used, pdc, scw)

candidate_groups(station, day, used, pdc, scw) ==
    IF FirstPass(station, day, used, pdc, scw) # {}
    THEN FirstPass(station, day, used, pdc, scw)
    ELSE IF OverrideReached(station, day, used, pdc, scw)
         THEN SecondPass(station, day, used, pdc)
         ELSE {}

\* --------------------------------------------------------- choose_group
Max0(x) == IF x > 0 THEN x ELSE 0

Deficit(g, station, scw) == Max0(station_rules[station].min - scw[g][station])

\* variant: the key ends at the station count, without the group identifier
DefKeyLeqWithoutName(g, h, station, scw, tot) ==
    LET a == <<0 - Deficit(g, station, scw), tot[g], scw[g][station]>>
        b == <<0 - Deficit(h, station, scw), tot[h], scw[h][station]>>
    IN \/ a[1] < b[1]
       \/ a[1] = b[1] /\ a[2] < b[2]
       \/ a[1] = b[1] /\ a[2] = b[2] /\ a[3] <= b[3]

\* variant: the station count is compared before total_assignments
DefKeyLeqCountFirst(g, h, station, scw, tot) ==
    LET a == <<0 - Deficit(g, station, scw), scw[g][station], tot[g], g>>
        b == <<0 - Deficit(h, station, scw), scw[h][station], tot[h], h>>
    IN \/ a[1] < b[1]
       \/ a[1] = b[1] /\ a[2] < b[2]
       \/ a[1] = b[1] /\ a[2] = b[2] /\ a[3] < b[3]
       \/ a[1] = b[1] /\ a[2] = b[2] /\ a[3] = b[3] /\ a[4] <= b[4]

\* def_key(g) <= def_key(h), tuples compared lexicographically
DefKeyLeq(g, h, station, scw, tot) ==
    LET a == <<0 - Deficit(g, station, scw), tot[g], scw[g][station], g>>
        b == <<0 - Deficit(h, station, scw), tot[h], scw[h][station], h>>
    IN \/ a[1] < b[1]
       \/ a[1] = b[1] /\ a[2] < b[2]
       \/ a[1] = b[1] /\ a[2] = b[2] /\ a[3] < b[3]
       \/ a[1] = b[1] /\ a[2] = b[2] /\ a[3] = b[3] /\ a[4] <= b[4]

\* min(cands, key = def_key): the candidates no other candidate's key is below;
\* the empty set stands for the None returned when there is no candidate
choose_group(cands, station, scw, tot) ==
    {g \in cands : \A h \in cands : DefKeyLeq(g, h, station, scw, tot)}

\* ---------------------------------------------------- validate_schedule
Report(kind, day, slot, station, group, assigned) ==
    [kind |-> kind, day |-> day, slot |-> slot, station |-> station,
     group |-> group, assigned |-> assigned]

Accepted == Report("ok", 0, 0, 0, None, <<>>)

NoVerdict == Report("none", 0, 0, 0, None, <<>>)

GridDays(sched) == Len(sched)

GridSlots(sched) == IF Len(sched) > 0 THEN Len(sched[1]) ELSE 0

\* assigned = [g for g in (schedule[d][s][st] for st in stations) if g]
Assigned(cell, sts) ==
    LET filled(st) == Truthy(cell[st])
        at == SelectSeq(sts, filled)
    IN [j \in 1..Len(at) |-> cell[at[j]]]

\* len(set(assigned)) != len(assigned)
HasDuplicate(seq) == Cardinality({seq[j] : j \in 1..Len(seq)}) # Len(seq)

\* 1) the first (day, slot), in loop order, whose assigned list has a duplicate
DuplicateCells(sched, sts) ==
    {c \in (1..GridDays(sched)) \X (1..GridSlots(sched)) :
        HasDuplicate(Assigned(sched[c[1]][c[2]], sts))}

CellBefore(a, b) == a[1] < b[1] \/ (a[1] = b[1] /\ a[2] <= b[2])

\* 2) the (day, slot, station index) at which counts[(g, st)] exceeds 1
RepeatVisits(sched, sts) ==
    {v \in (1..GridDays(sched)) \X (1..GridSlots(sched)) \X (1..Len(sts)) :
        LET g == sched[v[1]][v[2]][sts[v[3]]]
        IN /\ Truthy(g)
           /\ \E q \in 1..(v[2] - 1) : sched[v[1]][q][sts[v[3]]] = g}

\* variant: check 3 tests "not schedule[d][s][st]" as checks 1 and 2 do
EmptyRequiredByTruth(sched, sts, rules) ==
    {v \in (1..GridDays(sched)) \X (1..GridSlots(sched)) \X (1..Len(sts)) :
        /\ rules[sts[v[3]]].required
        /\ ~Truthy(sched[v[1]][v[2]][sts[v[3]]])}

\* 3) the (day, slot, station index) of a required station holding None
EmptyRequired(sched, sts, rules) ==
    {v \in (1..GridDays(sched)) \X (1..GridSlots(sched)) \X (1..Len(sts)) :
        /\ rules[sts[v[3]]].required
        /\ sched[v[1]][v[2]][sts[v[3]]] = None}

VisitBefore(a, b) ==
    \/ a[1] < b[1]
    \/ a[1] = b[1] /\ a[2] < b[2]
    \/ a[1] = b[1] /\ a[2] = b[2] /\ a[3] <= b[3]

FirstCell(S) == CHOOSE c \in S : \A e \in S : CellBefore(c, e)

FirstVisit(S) == CHOOSE v \in S : \A e \in S : VisitBefore(v, e)

\* variant: check 3 runs whatever strict_required is
validate_schedule_always_strict(sched, gs, sts, rules, strict) ==
    IF DuplicateCells(sched, sts) # {}
    THEN LET c == FirstCell(DuplicateCells(sched, sts))
         IN Report("duplicate", c[1], c[2], 0, None,
                   Assigned(sched[c[1]][c[2]], sts))
    ELSE IF RepeatVisits(sched, sts) # {}
    THEN LET v == FirstVisit(RepeatVisits(sched, sts))
         IN Report("repeat", v[1], 0, sts[v[3]], sched[v[1]][v[2]][sts[v[3]]], <<>>)
    ELSE IF EmptyRequired(sched, sts, rules) # {}
    THEN LET v == FirstVisit(EmptyRequired(sched, sts, rules))
         IN Report("required_empty", v[1], v[2], sts[v[3]], None, <<>>)
    ELSE Accepted

\* variant: a fourth check recounts the week and rejects a count over the max
validate_schedule_with_cap(sched, gs, sts, rules, strict) ==
    IF DuplicateCells(sched, sts) # {}
    THEN LET c == FirstCell(DuplicateCells(sched, sts))
         IN Report("duplicate", c[1], c[2], 0, None,
                   Assigned(sched[c[1]][c[2]], sts))
    ELSE IF RepeatVisits(sched, sts) # {}
    THEN LET v == FirstVisit(RepeatVisits(sched, sts))
         IN Report("repeat", v[1], 0, sts[v[3]], sched[v[1]][v[2]][sts[v[3]]], <<>>)
    ELSE IF strict /\ EmptyRequired(sched, sts, rules) # {}
    THEN LET v == FirstVisit(EmptyRequired(sched, sts, rules))
         IN Report("required_empty", v[1], v[2], sts[v[3]], None, <<>>)
    ELSE IF \E g \in gs : \E j \in 1..Len(sts) :
               Cardinality({c \in (1..GridDays(sched)) \X (1..GridSlots(sched)) :
                               sched[c[1]][c[2]][sts[j]] = g}) > rules[sts[j]].max
    THEN Report("over_cap", 0, 0, 0, None, <<>>)
    ELSE Accepted

\* the AssertionError raised first, or Accepted when the function returns
validate_schedule(sched, gs, sts, rules, strict) ==
    IF DuplicateCells(sched, sts) # {}
    THEN LET c == FirstCell(DuplicateCells(sched, sts))
         IN Report("duplicate", c[1], c[2], 0, None,
                   Assigned(sched[c[1]][c[2]], sts))
    ELSE IF RepeatVisits(sched, sts) # {}
    THEN LET v == FirstVisit(RepeatVisits(sched, sts))
         IN Report("repeat", v[1], 0, sts[v[3]], sched[v[1]][v[2]][sts[v[3]]], <<>>)
    ELSE IF strict /\ EmptyRequired(sched, sts, rules) # {}
    THEN LET v == FirstVisit(EmptyRequired(sched, sts, rules))
         IN Report("required_empty", v[1], v[2], sts[v[3]], None, <<>>)
    ELSE Accepted

\* ----------------------------------------------------------------- Init
\* the caller's group lists: "" may or may not be one of the identifiers
GroupSets == {lo..hi : lo \in {EmptyName, EmptyName + 1}, hi \in 0..MaxGroupId} \ {{}}

StationLists == {[j \in 1..n |-> j] : n \in 1..MaxStations}

\* the counters and the grid of one run, as a record
NewRun(gs, sts, nd, ns) ==
    [schedule |-> EmptySchedule(sts, nd, ns),
     total_assignments |-> ZeroTotals(gs),
     station_counts_week |-> ZeroStationCounts(gs, sts),
     per_day_station_counts |-> ZeroPerDay(gs, sts, nd),
     used_in_slot |-> {}]

\* no (day, slot, station) has been through the loop body yet
NoVisits(sts, nd, ns) == [v \in (1..nd) \X (1..ns) \X sts |-> 0]

Constructed ==
    /\ schedule = EmptySchedule(StationSet, days, slots_per_day)
    /\ total_assignments = ZeroTotals(groups)
    /\ station_counts_week = ZeroStationCounts(groups, StationSet)
    /\ per_day_station_counts = ZeroPerDay(groups, StationSet, days)
    /\ ordered_stations = stations
    /\ d = 0 /\ s = 0 /\ k = 1
    /\ used_in_slot = {}
    /\ override_taken = {}
    /\ override_supplied = {}
    /\ verdict = NoVerdict
    /\ visits = NoVisits(StationSet, days, slots_per_day)
    /\ day_orders = <<>>
    /\ twin = NewRun(groups, StationSet, days, slots_per_day)

Init ==
    /\ groups \in GroupSets
    /\ stations \in StationLists
    /\ days \in 0..MaxDays
    /\ slots_per_day \in 0..MaxSlots
    /\ station_rules \in [StationSet -> StationRule]
    /\ strict_required \in BOOLEAN
    /\ Constructed
    /\ pc = "start"

\* -------------------------------------------------------- build_schedule
\* ordered_stations = resort(), before the loops
InitialResortStep ==
    /\ pc = "start"
    /\ \E rnd \in Draws : ordered_stations' = resort(rnd)
    /\ pc' = "day"
    /\ UNCHANGED <<inputs, schedule, total_assignments, station_counts_week,
                   per_day_station_counts, d, s, k, used_in_slot,
                   override_taken, override_supplied, verdict, visits,
                   day_orders>>

\* for d in range(days): ordered_stations = resort()
DayStep ==
    /\ pc = "day" /\ d < days
    /\ \E rnd \in Draws : ordered_stations' = resort(rnd)
    /\ day_orders' = Append(day_orders, ordered_stations')
    /\ s' = 0
    /\ pc' = "slot"
    /\ UNCHANGED <<inputs, schedule, total_assignments, station_counts_week,
                   per_day_station_counts, d, k, used_in_slot,
                   override_taken, override_supplied, verdict, visits>>

\* for s in range(slots_per_day): used_in_slot = set()
SlotStep ==
    /\ pc = "slot" /\ s < slots_per_day
    /\ used_in_slot' = {}
    /\ k' = 1
    /\ pc' = "station"
    /\ UNCHANGED <<inputs, schedule, total_assignments, station_counts_week,
                   per_day_station_counts, ordered_stations, d, s,
                   override_taken, override_supplied, verdict, visits,
                   day_orders>>

\* the slots of the day are exhausted: next day
DayEndStep ==
    /\ pc = "slot" /\ s = slots_per_day
    /\ d' = d + 1
    /\ pc' = "day"
    /\ UNCHANGED <<inputs, schedule, total_assignments, station_counts_week,
                   per_day_station_counts, ordered_stations, s, k, used_in_slot,
                   override_taken, override_supplied, verdict, visits,
                   day_orders>>

\* the stations of the slot are exhausted: next slot
SlotEndStep ==
    /\ pc = "station" /\ k > Len(ordered_stations)
    /\ s' = s + 1
    /\ pc' = "slot"
    /\ UNCHANGED <<inputs, schedule, total_assignments, station_counts_week,
                   per_day_station_counts, ordered_stations, d, k, used_in_slot,
                   override_taken, override_supplied, verdict, visits,
                   day_orders>>

\* variant: the branch forgets total_assignments[g] += 1
AssignedWithoutTotal(run, day, slot, st, g) ==
    [schedule |-> [run.schedule EXCEPT ![day + 1][slot + 1][st] = g],
     total_assignments |-> run.total_assignments,
     station_counts_week |-> [run.station_counts_week EXCEPT ![g][st] = @ + 1],
     per_day_station_counts |->
         [run.per_day_station_counts EXCEPT ![day + 1][g][st] = @ + 1],
     used_in_slot |-> run.used_in_slot \cup {g}]

\* the five updates of the branch "if g is not None", on one run's data
Assigned5(run, day, slot, st, g) ==
    [schedule |-> [run.schedule EXCEPT ![day + 1][slot + 1][st] = g],
     total_assignments |-> [run.total_assignments EXCEPT ![g] = @ + 1],
     station_counts_week |-> [run.station_counts_week EXCEPT ![g][st] = @ + 1],
     per_day_station_counts |->
         [run.per_day_station_counts EXCEPT ![day + 1][g][st] = @ + 1],
     used_in_slot |-> run.used_in_slot \cup {g}]

\* the branch "else": schedule[d][s][st] = None
LeftNone(run, day, slot, st) ==
    [run EXCEPT !.schedule[day + 1][slot + 1][st] = None]

ThisRun ==
    [schedule |-> schedule,
     total_assignments |-> total_assignments,
     station_counts_week |-> station_counts_week,
     per_day_station_counts |-> per_day_station_counts,
     used_in_slot |-> used_in_slot]

RunCandidates(run, st, day) ==
    candidate_groups(st, day, run.used_in_slot, run.per_day_station_counts,
                     run.station_counts_week)

RunChoice(run, st, day) ==
    choose_group(RunCandidates(run, st, day), st, run.station_counts_week,
                 run.total_assignments)

BecomesRun(run) ==
    /\ schedule' = run.schedule
    /\ total_assignments' = run.total_assignments
    /\ station_counts_week' = run.station_counts_week
    /\ per_day_station_counts' = run.per_day_station_counts
    /\ used_in_slot' = run.used_in_slot

\* for st in ordered_stations: cands, g, and the branch g is not None
AssignStep ==
    /\ pc = "station" /\ k <= Len(ordered_stations)
    /\ LET st == ordered_stations[k]
           reached == OverrideReached(st, d, used_in_slot, per_day_station_counts,
                                      station_counts_week)
       IN /\ \E g \in RunChoice(ThisRun, st, d) :
                 BecomesRun(Assigned5(ThisRun, d, s, st, g))
          /\ override_taken' = IF reached THEN override_taken \cup {st}
                               ELSE override_taken
          /\ override_supplied' = IF reached THEN override_supplied \cup {st}
                                  ELSE override_supplied
    /\ k' = k + 1
    /\ visits' = [visits EXCEPT ![<<d + 1, s + 1, ordered_stations[k]>>] = @ + 1]
    /\ UNCHANGED <<inputs, ordered_stations, d, s, pc, verdict, day_orders>>

\* for st in ordered_stations: cands, g, and the branch g is None
LeaveEmptyStep ==
    /\ pc = "station" /\ k <= Len(ordered_stations)
    /\ LET st == ordered_stations[k]
           reached == OverrideReached(st, d, used_in_slot, per_day_station_counts,
                                      station_counts_week)
       IN /\ RunChoice(ThisRun, st, d) = {}
          /\ BecomesRun(LeftNone(ThisRun, d, s, st))
          /\ override_taken' = IF reached THEN override_taken \cup {st}
                               ELSE override_taken
    /\ k' = k + 1
    /\ visits' = [visits EXCEPT ![<<d + 1, s + 1, ordered_stations[k]>>] = @ + 1]
    /\ UNCHANGED <<inputs, ordered_stations, d, s, pc, override_supplied, verdict,
                   day_orders>>

\* return (schedule, dict(total_assignments), {...})
ReturnStep ==
    /\ pc = "day" /\ d = days
    /\ pc' = "returned"
    /\ UNCHANGED <<inputs, schedule, total_assignments, station_counts_week,
                   per_day_station_counts, ordered_stations, d, s, k, used_in_slot,
                   override_taken, override_supplied, verdict, visits,
                   day_orders>>

\* __main__: validate_schedule(schedule, groups, stations, station_rules, strict)
ValidateStep ==
    /\ pc \in {"returned", "external"}
    /\ verdict' = validate_schedule(schedule, groups, stations, station_rules,
                                    strict_required)
    /\ pc' = "validated"
    /\ UNCHANGED <<inputs, schedule, total_assignments, station_counts_week,
                   per_day_station_counts, ordered_stations, d, s, k, used_in_slot,
                   override_taken, override_supplied, visits,
                   day_orders>>

Next ==
    \/ InitialResortStep /\ UNCHANGED twin
    \/ DayStep /\ UNCHANGED twin
    \/ SlotStep /\ UNCHANGED twin
    \/ AssignStep /\ UNCHANGED twin
    \/ LeaveEmptyStep /\ UNCHANGED twin
    \/ SlotEndStep /\ UNCHANGED twin
    \/ DayEndStep /\ UNCHANGED twin
    \/ ReturnStep /\ UNCHANGED twin
    \/ ValidateStep /\ UNCHANGED twin

Spec == Init /\ [][Next]_vars

\* build_schedule is one sequential call: it keeps stepping until it returns
SpecFair == Spec /\ WF_vars(Next)

\* ------------------------------------------ two runs on the same input
\* the second run takes the step the first run takes, on its own data and
\* with its own call of choose_group; the station order drawn is shared
TwinStationStep ==
    LET st == ordered_stations[k]
    IN \/ \E g \in RunChoice(twin, st, d) : twin' = Assigned5(twin, d, s, st, g)
       \/ /\ RunChoice(twin, st, d) = {}
          /\ twin' = LeftNone(twin, d, s, st)

\* used_in_slot = set()
TwinSlotStep == twin' = [twin EXCEPT !.used_in_slot = {}]

NextTwice ==
    \/ InitialResortStep /\ UNCHANGED twin
    \/ DayStep /\ UNCHANGED twin
    \/ SlotStep /\ TwinSlotStep
    \/ AssignStep /\ TwinStationStep
    \/ LeaveEmptyStep /\ TwinStationStep
    \/ SlotEndStep /\ UNCHANGED twin
    \/ DayEndStep /\ UNCHANGED twin
    \/ ReturnStep /\ UNCHANGED twin

SpecTwice == Init /\ [][NextTwice]_vars

\* ------------------------------------------- validate_schedule on any grid
\* group identifiers of the externally constructed grids
MaxGridGroupId == 1

GridGroupSets == {gs \in GroupSets : \A g \in gs : g <= MaxGridGroupId}

\* validate_schedule reads nothing of a rule but .required
GridRules == {r \in StationRule : r.min = 0 /\ r.max = 1 /\ r.fill_priority = 1}

\* a caller hands validate_schedule a rectangular grid over the problem's
\* groups and stations
InitV ==
    /\ groups \in GridGroupSets
    /\ stations \in StationLists
    /\ days \in 0..MaxDays
    /\ slots_per_day \in 0..MaxSlots
    /\ station_rules \in [StationSet -> GridRules]
    /\ strict_required \in BOOLEAN
    /\ schedule \in [1..days -> [1..slots_per_day ->
                         [StationSet -> groups \cup {None}]]]
    /\ total_assignments = ZeroTotals(groups)
    /\ station_counts_week = ZeroStationCounts(groups, StationSet)
    /\ per_day_station_counts = ZeroPerDay(groups, StationSet, days)
    /\ ordered_stations = stations
    /\ d = 0 /\ s = 0 /\ k = 1
    /\ used_in_slot = {}
    /\ override_taken = {}
    /\ override_supplied = {}
    /\ verdict = NoVerdict
    /\ visits = NoVisits(StationSet, days, slots_per_day)
    /\ day_orders = <<>>
    /\ twin = NewRun(groups, StationSet, days, slots_per_day)
    /\ pc = "external"

NextV == ValidateStep /\ UNCHANGED twin

SpecV == InitV /\ [][NextV]_vars

\* ------------------------------------------------- end-to-end scenarios
\* 4 groups, 3 stations with min = 1, max = 2, required, days = 2,
\* slotsPerDay = 2, strict; the fill priorities are left open
InitFilled ==
    /\ groups = 1..4
    /\ stations = <<1, 2, 3>>
    /\ days = 2
    /\ slots_per_day = 2
    /\ station_rules \in [StationSet -> {r \in [min : {1}, max : {2},
                               required : {TRUE}, fill_priority : FillPriorities] : TRUE}]
    /\ strict_required = TRUE
    /\ Constructed
    /\ pc = "start"

\* 1 group, 2 required stations, slotsPerDay = 1, strict; days and the
\* stations' min and max are left open
InitInfeasible ==
    /\ groups \in {gs \in GroupSets : Cardinality(gs) = 1}
    /\ stations = <<1, 2>>
    /\ days \in 1..MaxDays
    /\ slots_per_day = 1
    /\ station_rules \in [StationSet -> {r \in StationRule : r.required}]
    /\ strict_required = TRUE
    /\ Constructed
    /\ pc = "start"

InitScenarios == InitFilled \/ InitInfeasible

SpecScenarios == InitScenarios /\ [][Next]_vars

\* --------------------------------- runs where the whole sort key decides
\* 3 groups over 3 stations, 2 days of 2 slots: the smallest input on which
\* every component of the key of choose_group separates two candidates;
\* the rules range over StationRule with one fill priority, strict or not
SelGroups == 3
SelStations == 3
SelDays == 2
SelSlots == 2

InitSelection ==
    /\ groups = 1..SelGroups
    /\ stations = [j \in 1..SelStations |-> j]
    /\ days = SelDays
    /\ slots_per_day = SelSlots
    /\ station_rules \in [StationSet -> {r \in StationRule : r.fill_priority = 1}]
    /\ strict_required \in BOOLEAN
    /\ Constructed
    /\ pc = "start"

SpecSelection == InitSelection /\ [][Next]_vars

\* ============================================================== claims
Cells == {c \in (1..Len(schedule)) \X (1..slots_per_day) : TRUE}

AtCell(c, st) == schedule[c[1]][c[2]][st]

\* number of slots of day dd in which station st holds group g
VisitsOnDay(dd, st, g) ==
    Cardinality({ss \in 1..slots_per_day : schedule[dd][ss][st] = g})

Building == pc \in {"start", "day", "slot", "station", "returned", "validated"}

\* C1: in every state of build_schedule and in the returned grid, no group
\* is at two stations of the same (day, slot) cell
C1_SlotUniqueness ==
    Building =>
        \A c \in Cells : \A a, b \in StationSet :
            (a # b /\ AtCell(c, a) # None) => AtCell(c, a) # AtCell(c, b)

\* a returned grid, built from two groups or more, with a cell in which two
\* stations are filled
C1_Witness ==
    /\ pc = "returned"
    /\ \E c \in Cells : \E a, b \in StationSet :
          /\ a # b /\ AtCell(c, a) # None /\ AtCell(c, b) # None
          /\ Cardinality(groups) >= 2

\* C2: each group occupies a given station in at most one slot of a day, in
\* strict and non-strict mode, override included
C2_DayStationUniqueness ==
    Building =>
        \A dd \in 1..Len(schedule) : \A st \in StationSet : \A g \in groups :
            VisitsOnDay(dd, st, g) <= 1

\* a returned two-slot grid in which the override supplied a group to a
\* station that is filled in one slot of a day and left empty in the other
C2_Witness ==
    /\ pc = "returned"
    /\ slots_per_day >= 2
    /\ \E st \in override_supplied : \E dd \in 1..Len(schedule) :
          /\ schedule[dd][1][st] # None
          /\ schedule[dd][2][st] = None

\* C3: the cap-dropping pass is taken only for a required station and only
\* when strict is false; under strict no weekly count exceeds the max
C3_OverrideSoundness ==
    Building =>
        /\ \A st \in override_taken : station_rules[st].required
        /\ override_taken # {} => ~strict_required
        /\ strict_required =>
              \A g \in groups : \A st \in StationSet :
                  station_counts_week[g][st] <= station_rules[st].max

\* strict mode, at a required station whose only eligible groups are at the
\* cap: the case in which the non-strict scheduler would override
C3_Witness ==
    /\ pc = "station" /\ k <= Len(ordered_stations)
    /\ strict_required
    /\ station_rules[ordered_stations[k]].required
    /\ FirstPass(ordered_stations[k], d, used_in_slot, per_day_station_counts,
                 station_counts_week) = {}
    /\ SecondPass(ordered_stations[k], d, used_in_slot,
                  per_day_station_counts) # {}

\* C4: a station to which the override never supplied a group keeps every
\* group's weekly count within its max
C4_CapRespect ==
    Building =>
        \A st \in StationSet \ override_supplied : \A g \in groups :
            station_counts_week[g][st] <= station_rules[st].max

\* a returned non-strict grid with one station over its cap by override and
\* another station, never overridden, with a group exactly at its cap
C4_Witness ==
    /\ pc = "returned"
    /\ \E a \in override_supplied : \E g \in groups :
          station_counts_week[g][a] > station_rules[a].max
    /\ \E b \in StationSet \ override_supplied : \E g \in groups :
          /\ station_counts_week[g][b] = station_rules[b].max
          /\ \E c \in Cells : AtCell(c, b) = None

\* a required station holds None in some cell of the grid
SomeRequiredEmpty ==
    \E c \in Cells : \E st \in StationSet :
        station_rules[st].required /\ AtCell(c, st) = None

\* C5: validate_schedule accepts every grid build_schedule returns, but that
\* under strict it reports exactly the grids with an empty required station,
\* and never a slot duplicate or a day-station repeat
C5_BuiltGridValidates ==
    pc = "validated" =>
        /\ verdict.kind \notin {"duplicate", "repeat"}
        /\ ~strict_required => verdict = Accepted
        /\ strict_required => (verdict # Accepted <=> SomeRequiredEmpty)

\* a strict run, validated, whose grid holds the empty-string group at a
\* required station and has another required cell left empty
C5_Witness ==
    /\ pc = "validated"
    /\ strict_required
    /\ verdict.kind = "required_empty"
    /\ \E c \in Cells : \E st \in StationSet :
          station_rules[st].required /\ AtCell(c, st) = EmptyName

\* cells of the grid that break invariant 1: one group at two stations
SlotDuplicates ==
    {c \in Cells : \E a, b \in StationSet :
        a # b /\ AtCell(c, a) # None /\ AtCell(c, a) = AtCell(c, b)}

\* <<day, station, group>> that break invariant 2
DayStationRepeats ==
    {v \in (1..Len(schedule)) \X StationSet \X groups :
        VisitsOnDay(v[1], v[2], v[3]) > 1}

\* the violation reported is one the grid really has
ReportIsReal ==
    /\ verdict.kind = "duplicate" => <<verdict.day, verdict.slot>> \in SlotDuplicates
    /\ verdict.kind = "repeat" =>
          <<verdict.day, verdict.station, verdict.group>> \in DayStationRepeats

\* C9: a grid that breaks invariant 1 or 2 is rejected, and the violation
\* reported names a day/slot or a group/station/day where the grid breaks it
C9_ValidatorSoundness ==
    (pc = "validated" /\ (SlotDuplicates # {} \/ DayStationRepeats # {})) =>
        /\ verdict # Accepted
        /\ ReportIsReal

\* C10: under strict, a grid that keeps invariants 1 and 2 and has an empty
\* required cell is rejected with the station, day and slot of such a cell;
\* without strict, an empty required cell is never reported
C10_StrictRequiredCheck ==
    pc = "validated" =>
        /\ (strict_required /\ SlotDuplicates = {} /\ DayStationRepeats = {}
              /\ SomeRequiredEmpty) =>
              /\ verdict.kind = "required_empty"
              /\ station_rules[verdict.station].required
              /\ schedule[verdict.day][verdict.slot][verdict.station] = None
        /\ ~strict_required => verdict.kind # "required_empty"

\* a strict validation of a grid that keeps invariants 1 and 2, holds the
\* empty-string group somewhere and has an empty required cell on day 2
C10_Witness ==
    /\ pc = "validated"
    /\ strict_required
    /\ SlotDuplicates = {} /\ DayStationRepeats = {}
    /\ verdict.kind = "required_empty" /\ verdict.day = 2
    /\ \E c \in Cells : \E st \in StationSet : AtCell(c, st) = EmptyName

\* the input of the end-to-end scenario
FilledScenario ==
    /\ Cardinality(groups) = 4 /\ Len(stations) = 3
    /\ days = 2 /\ slots_per_day = 2 /\ strict_required
    /\ \A st \in StationSet :
          /\ station_rules[st].min = 1 /\ station_rules[st].max = 2
          /\ station_rules[st].required

\* all cells filled, no group twice at a station in a day, and the groups'
\* totals within n of each other
FilledAndSpread(n) ==
    /\ \A c \in Cells : \A st \in StationSet : AtCell(c, st) # None
    /\ \A g, h \in groups : total_assignments[g] - total_assignments[h] <= n
    /\ \A dd \in 1..Len(schedule) : \A st \in StationSet : \A g \in groups :
          VisitsOnDay(dd, st, g) <= 1

\* C6 (as stated): in the end-to-end scenario, whatever the station orders,
\* all 12 cells are filled, the groups' totals differ by at most 1, and no
\* group is at the same station twice in a day
C6_FilledSpreadOne == (pc = "returned" /\ FilledScenario) => FilledAndSpread(1)

\* C6 (amended): the same, with the groups' totals differing by at most 2
C6_FilledSpreadTwo == (pc = "returned" /\ FilledScenario) => FilledAndSpread(2)

\* the scenario has returned, the last day's stations taken in reverse order,
\* with 12 cells filled and two groups' totals 2 apart
C6_Witness ==
    /\ pc = "returned" /\ FilledScenario
    /\ ordered_stations = <<3, 2, 1>>
    /\ Cardinality(Cells) * Len(stations) = 12
    /\ \E g, h \in groups : total_assignments[g] - total_assignments[h] = 2

\* the input of the infeasibility scenario
InfeasibleScenario ==
    /\ Cardinality(groups) = 1 /\ Len(stations) = 2
    /\ days >= 1 /\ slots_per_day = 1 /\ strict_required
    /\ \A st \in StationSet : station_rules[st].required

\* both stations of the slot have been processed
SlotProcessed == pc = "station" /\ k = Len(ordered_stations) + 1

Here(j) == schedule[d + 1][s + 1][ordered_stations[j]]

\* the weekly count of group g at the j-th station of the order, as it stood
\* before this slot
CountBefore(g, j) ==
    station_counts_week[g][ordered_stations[j]] - (IF Here(j) = g THEN 1 ELSE 0)

\* C7 (as stated): in the infeasibility scenario, on every day the first
\* station of the day's order gets the group and the second is left empty
C7_FirstFilledSecondEmpty ==
    (InfeasibleScenario /\ SlotProcessed) =>
        /\ Here(1) \in groups
        /\ Here(2) = None

\* C7 (amended): on every day on which the group is still under the max of
\* the first station of the day's order, that station gets the group and the
\* second is left empty; on every day at most one station is filled
C7_FirstFilledWhileUnderCap ==
    (InfeasibleScenario /\ SlotProcessed) =>
        /\ \A g \in groups :
              CountBefore(g, 1) < station_rules[ordered_stations[1]].max =>
                  (Here(1) = g /\ Here(2) = None)
        /\ Here(1) = None \/ Here(2) = None

\* second day of the scenario: the same station came first on both days and
\* got the group both times, the other station stayed empty
C7_Witness ==
    /\ InfeasibleScenario /\ SlotProcessed
    /\ d = 1
    /\ Here(1) \in groups /\ Here(2) = None
    /\ station_counts_week[Here(1)][ordered_stations[1]] = 2

\* C8: two runs on the same input that draw the same station order each day
\* build the same grid, the same totalAssignments and the same stationCounts
C8_SameOrderSameResult ==
    /\ twin.schedule = schedule
    /\ twin.total_assignments = total_assignments
    /\ twin.station_counts_week = station_counts_week

\* two candidates tied on deficit, total and station count
TiedCandidates(st) ==
    \E g, h \in RunCandidates(ThisRun, st, d) :
        /\ g # h
        /\ DefKeyLeqWithoutName(g, h, st, station_counts_week, total_assignments)
        /\ DefKeyLeqWithoutName(h, g, st, station_counts_week, total_assignments)

\* both runs have filled the first station of a slot alike and face, at the
\* second, two candidates that only the group identifier tells apart
C8_Witness ==
    /\ pc = "station" /\ k = 2 /\ k <= Len(ordered_stations)
    /\ Here(1) # None /\ twin.schedule = schedule
    /\ TiedCandidates(ordered_stations[k])

\* the grid has days x slotsPerDay cells, each mapping every station of the
\* station set to one group or to None
GridShape ==
    /\ Len(schedule) = days
    /\ \A dd \in 1..days :
          /\ Len(schedule[dd]) = slots_per_day
          /\ \A ss \in 1..slots_per_day :
                /\ DOMAIN schedule[dd][ss] = StationSet
                /\ \A st \in StationSet : schedule[dd][ss][st] \in groups \cup {None}

\* no (day, slot, station) has been through the loop body twice, and at the
\* return each has been through it once
VisitedOnce ==
    /\ \A v \in DOMAIN visits : visits[v] <= 1
    /\ pc \in {"returned", "validated"} => \A v \in DOMAIN visits : visits[v] = 1

\* C11: on every input meeting the preconditions, days = 0, slotsPerDay = 0
\* and fewer groups than stations included, build_schedule returns, having
\* visited each (day, slot, station) once, a grid of days x slotsPerDay cells
\* that map every station to one group or to None
C11_NeverFails ==
    /\ [](Building => (GridShape /\ VisitedOnce))
    /\ <>(pc = "returned")

\* a run with fewer groups than stations has returned a grid with a cell
\* left empty
C11_Witness ==
    /\ pc = "returned"
    /\ Cardinality(groups) < Len(stations)
    /\ days >= 1 /\ slots_per_day >= 1
    /\ \E c \in Cells : \E st \in StationSet : AtCell(c, st) = None

\* number of cells of the grid in which station st holds group g
WeeklyCount(g, st) == Cardinality({c \in Cells : AtCell(c, st) = g})

\* C12: a grid that keeps invariants 1 and 2 and, under strict, has no empty
\* required cell is accepted, whatever the weekly counts are against the max
C12_CapNotValidated ==
    (/\ pc = "validated"
     /\ SlotDuplicates = {} /\ DayStationRepeats = {}
     /\ strict_required => ~SomeRequiredEmpty) => verdict = Accepted

\* a strict validation has accepted a grid in which a group is over the max
\* of a non-required station
C12_Witness ==
    /\ pc = "validated" /\ strict_required
    /\ verdict = Accepted
    /\ \E g \in groups : \E st \in StationSet :
          /\ ~station_rules[st].required
          /\ WeeklyCount(g, st) > station_rules[st].max

\* the station being processed, and its candidates on the counters as they
\* stand
CurrentStation == ordered_stations[k]

AtStation == pc = "station" /\ k <= Len(ordered_stations)

CurrentCandidates == RunCandidates(ThisRun, CurrentStation, d)

\* remaining deficit of group g toward the min quota of station st
RemainingDeficit(g, st) ==
    IF station_rules[st].min > station_counts_week[g][st]
    THEN station_rules[st].min - station_counts_week[g][st]
    ELSE 0

\* g is ahead of h for station st: larger deficit, then lower total, then
\* lower station count, then smaller identifier
Ahead(g, h, st) ==
    \/ RemainingDeficit(g, st) > RemainingDeficit(h, st)
    \/ /\ RemainingDeficit(g, st) = RemainingDeficit(h, st)
       /\ \/ total_assignments[g] < total_assignments[h]
          \/ /\ total_assignments[g] = total_assignments[h]
             /\ \/ station_counts_week[g][st] < station_counts_week[h][st]
                \/ /\ station_counts_week[g][st] = station_counts_week[h][st]
                   /\ g < h

\* the group the step puts in the cell of the current station
Placed == schedule'[d + 1][s + 1][CurrentStation]

StationStepTaken == AtStation /\ k' = k + 1

\* C13: the group assigned is a candidate of the step and is ahead of every
\* other candidate, on the counters as they stand before the assignment
C13_CandidateSelection ==
    [][(StationStepTaken /\ Placed # None) =>
          /\ Placed \in CurrentCandidates
          /\ \A h \in CurrentCandidates \ {Placed} :
                Ahead(Placed, h, CurrentStation)]_vars

\* a station is about to be filled from two candidates or more, the one
\* further behind on the min quota having the higher total
C13_Witness ==
    /\ AtStation
    /\ \E g, h \in CurrentCandidates :
          /\ RemainingDeficit(g, CurrentStation) > RemainingDeficit(h, CurrentStation)
          /\ total_assignments[g] > total_assignments[h]

\* ------------------------------------------------------------------ C14
\* the conditions of the claim, read off the grid as it stands when the
\* station is processed
UsedInThisSlot(g) == \E st \in StationSet : schedule[d + 1][s + 1][st] = g

VisitedToday(g, st) == VisitsOnDay(d + 1, st, g) > 0

AtOrAboveMax(g, st) == WeeklyCount(g, st) >= station_rules[st].max

OverrideApplies(st) == station_rules[st].required /\ ~strict_required

NoCandidateFor(st) ==
    \A g \in groups :
        \/ UsedInThisSlot(g)
        \/ VisitedToday(g, st)
        \/ ~OverrideApplies(st) /\ AtOrAboveMax(g, st)

\* C14: a station is left empty exactly when every group is used in the
\* slot, or has visited the station that day, or (station not required, or
\* strict mode) is at or above the weekly max; otherwise it is filled
C14_EmptyIffNoCandidate ==
    [][StationStepTaken =>
          ((Placed = None) <=> NoCandidateFor(CurrentStation))]_vars

\* the station just processed was left empty although a group was free in
\* the slot and new to the station that day: only the weekly max held it back
C14_Witness ==
    /\ pc = "station" /\ k > 1
    /\ Here(k - 1) = None
    /\ \E g \in groups :
          /\ ~UsedInThisSlot(g)
          /\ ~VisitedToday(g, ordered_stations[k - 1])
          /\ AtOrAboveMax(g, ordered_stations[k - 1])

\* ------------------------------------------------------------------ C15
\* group h could still take station st within all three rules
EligibleUnderMax(h, st) ==
    /\ ~UsedInThisSlot(h)
    /\ ~VisitedToday(h, st)
    /\ ~AtOrAboveMax(h, st)

\* C15: a group whose weekly count at the station is at or above the max is
\* assigned only at a step where no group unused in the slot and new to the
\* station that day is still under the max
C15_OverrideLastResort ==
    [][(/\ StationStepTaken
        /\ Placed # None
        /\ AtOrAboveMax(Placed, CurrentStation)) =>
          \A h \in groups : ~EligibleUnderMax(h, CurrentStation)]_vars

\* the station just processed holds a group that is now over the max, in a
\* run with two groups or more
C15_Witness ==
    /\ pc = "station" /\ k > 1
    /\ Cardinality(groups) >= 2
    /\ Here(k - 1) \in groups
    /\ WeeklyCount(Here(k - 1), ordered_stations[k - 1]) >
           station_rules[ordered_stations[k - 1]].max

\* ------------------------------------------------------------------ C16
Required(st) == station_rules[st].required

\* station st has been through the loop body in the current slot
ProcessedInSlot(st) == visits[<<d + 1, s + 1, st>>] > 0

\* a station is processed after every required station of the slot when it
\* is not required, and before every non-required one when it is
RequiredFirstStep ==
    StationStepTaken =>
        /\ ~Required(CurrentStation) =>
              \A r \in StationSet : Required(r) => ProcessedInSlot(r)
        /\ Required(CurrentStation) =>
              \A n \in StationSet : ~Required(n) => ~ProcessedInSlot(n)

\* the k-th station of every slot of a day is the k-th of the order drawn
\* for that day
OrderOfTheDayStep ==
    StationStepTaken =>
        /\ Len(day_orders) = d + 1
        /\ CurrentStation = day_orders[d + 1][k]

\* an order is drawn for a day at the top of the day loop and nowhere else
DrawnOncePerDayStep ==
    day_orders' # day_orders =>
        /\ pc = "day" /\ pc' = "slot"
        /\ Len(day_orders) = d
        /\ Len(day_orders') = d + 1

\* a non-required station takes a group only once every required station of
\* the slot has been offered one
OfferedFirstStep ==
    (StationStepTaken /\ ~Required(CurrentStation) /\ Placed # None) =>
        \A r \in StationSet : Required(r) => ProcessedInSlot(r)

\* C16: in every slot every required station is processed before every
\* non-required one; the order is drawn once per day and every slot of the
\* day follows it; a non-required station never takes a group before all
\* required stations of the slot have been offered it
C16_StationOrdering ==
    /\ [][RequiredFirstStep]_vars
    /\ [][OrderOfTheDayStep]_vars
    /\ [][DrawnOncePerDayStep]_vars
    /\ [][OfferedFirstStep]_vars

\* the second slot of the second day is done, the week has required and
\* non-required stations, a non-required station got a group in this slot,
\* and the orders of the two days differ
C16_Witness ==
    /\ SlotProcessed /\ d = 1 /\ s = 1
    /\ \E r, n \in StationSet :
          /\ Required(r) /\ ~Required(n)
          /\ schedule[d + 1][s + 1][n] # None
    /\ day_orders[1] # day_orders[2]

\* ------------------------------------------------------------------ C17
\* number of (day, slot, station) cells holding group g
CellsHolding(g) ==
    Cardinality({x \in Cells \X StationSet : AtCell(x[1], x[2]) = g})

\* C17: at every point of build_schedule and in what it returns, each of
\* the three counters equals the count of the cells of the grid it stands for
C17_CountersMatchGrid ==
    Building =>
        \A g \in groups :
            /\ total_assignments[g] = CellsHolding(g)
            /\ \A st \in StationSet :
                  /\ station_counts_week[g][st] = WeeklyCount(g, st)
                  /\ \A dd \in 1..days :
                        per_day_station_counts[dd][g][st] = VisitsOnDay(dd, st, g)

\* a returned week in which a group was at one station on two days, a
\* group was never at some station, and a cell was left empty
C17_Witness ==
    /\ pc = "returned"
    /\ \E g \in groups : \E st \in StationSet : station_counts_week[g][st] = 2
    /\ \E g \in groups : \E st \in StationSet : station_counts_week[g][st] = 0
    /\ \E c \in Cells : \E st \in StationSet : AtCell(c, st) = None

\* ------------------------------------------------------------------ C18
\* C18: in strict and non-strict mode alike, no group is counted at a station
\* more often than there are days, nor in total more often than there are
\* (day, slot) cells
C18_OverrideExcessBounded ==
    Building =>
        \A g \in groups :
            /\ total_assignments[g] <= days * slots_per_day
            /\ \A st \in StationSet : station_counts_week[g][st] <= days

\* non-strict mode: the override took a group past the max of a required
\* station, up to one visit on each day, in a week of several slots a day
C18_Witness ==
    /\ ~strict_required
    /\ slots_per_day > 1
    /\ \E g \in groups : \E st \in override_supplied :
          /\ station_counts_week[g][st] > station_rules[st].max
          /\ station_counts_week[g][st] = days

====
